---- MODULE Spec2Model ----
(***************************************************************************)
(* Healthcare-Management: the appointment, availability, notification,     *)
(* payment and medical-record views of core/views.py with the forms of     *)
(* core/forms.py, the model save hooks of core/models.py and the post_save *)
(* signals of core/signals.py, as a state machine over the database rows.  *)
(*                                                                         *)
(* Times of day are seconds since midnight, dates are day numbers with     *)
(* day 0 a Monday, so that weekday(date) = date % 7.                       *)
(***************************************************************************)
EXTENDS Integers, Sequences, FiniteSets, TLC

\* ------------------------------------------------------------------ bounds
MaxDay == 1
MaxAppts == 2
MaxAvail == 2
MaxAccounts == 2

\* --------------------------------------------------------- program constants
SlotMinutes == 30
ApptMinutes == 30

\* None in a nullable date, time or id column
NULL == -1
\* None in a nullable DateTimeField
NoInstant == [day |-> NULL, time |-> NULL]
\* None in transaction_id
NoTxn == <<>>
DaySeconds == 24 * 60 * 60
T(h, m, s) == (h * 60 + m) * 60 + s

\* ------------------------------------------------------------------- users
Anon == "anon"

\* accounts: the User rows written while the site runs (registered, added by
\* an admin, or edited in profile_view); doctorRows: the users of the Doctor
\* rows created with them; session: the user logged in at the browser.
VARIABLES accounts, doctorRows, session

site == <<accounts, doctorRows, session>>

\* The users who exist from the start.
Users == {"p1", "p2", "d1", "d2", "adm", "root", "sudoc"}
Requesters == Users \cup {Anon}
AccountNames == {acc.username : acc \in accounts}

\* User.role. Of the users who exist from the start, "root" is a superuser
\* made by createsuperuser, whose role is the field's default, and "sudoc" is
\* a superuser given the role doctor in the admin site's user form.
Role(u) ==
    IF u \in AccountNames
    THEN (CHOOSE acc \in accounts : acc.username = u).role
    ELSE CASE u \in {"p1", "p2", "root"} -> "patient"
           [] u \in {"d1", "d2", "sudoc"} -> "doctor"
           [] u = "adm" -> "admin"
           [] OTHER -> "none"

IsSuperuser(u) == u \in {"root", "sudoc"}
IsAuthenticated(u) == u \in Users \cup AccountNames

is_patient(u) == IsAuthenticated(u) /\ Role(u) = "patient"
is_doctor(u) == IsAuthenticated(u) /\ Role(u) = "doctor"
is_admin(u) == IsAuthenticated(u) /\ (Role(u) = "admin" \/ IsSuperuser(u))

\* Doctor rows are identified with their user; both are active.
Doctors == {"d1", "d2"}
DoctorIsActive(d) == d \in Doctors

STATUS_CHOICES == {"pending", "confirmed", "cancelled", "completed", "rescheduled"}

\* ------------------------------------------------------------- date and time
Days == 0..MaxDay
weekday(date) == date % 7

\* datetime.combine(date, t) + timedelta(minutes) then .time(): wraps at midnight
AddMinutes(t, minutes) == (t + minutes * 60) % DaySeconds

\* strftime('%H:%M'): the seconds are dropped. The label is represented by the
\* time of day it denotes.
FormatHM(t) == t - (t % 60)

VARIABLES now, appointments, availabilities, notifications, payments,
          reviews, records, availSeq, resp, slotsOut, pageOut, inflight

vars == <<now, appointments, availabilities, notifications, payments,
          reviews, records, availSeq, resp, slotsOut, pageOut, inflight,
          accounts, doctorRows, session>>

db == <<appointments, availabilities, notifications, payments, reviews,
       records, availSeq>>

Today == now.day
NowTime == now.time

\* The instants the clock is observed at.
ClockTimes == {T(9, 15, 0)}

NoSlots == [doctor |-> "none", date |-> NULL, slots |-> <<>>]

\* The notifications a rendered page shows and the unread count it displays;
\* NoPage when the last request rendered no such page.
NoPage == [view |-> "none", user |-> Anon, listed |-> {}, unread_count |-> 0]

Resp(op, u, outcome) == [op |-> op, user |-> u, outcome |-> outcome]

Init ==
    /\ now = [day |-> 0, time |-> T(9, 15, 0)]
    /\ appointments = {}
    /\ availabilities = {}
    /\ notifications = {}
    /\ payments = {}
    /\ reviews = {}
    /\ records = {}
    /\ availSeq = 0
    /\ resp = Resp("init", Anon, "none")
    /\ slotsOut = NoSlots
    /\ pageOut = NoPage
    /\ inflight = {}
    /\ accounts = {}
    /\ doctorRows = {}
    /\ session = Anon

\* Time passes between requests.
Tick ==
    /\ \E d \in Days, t \in ClockTimes :
          /\ d > now.day \/ (d = now.day /\ t > now.time)
          /\ now' = [day |-> d, time |-> t]
    /\ resp' = Resp("tick", Anon, "none")
    /\ slotsOut' = NoSlots
    /\ UNCHANGED site
    /\ pageOut' = NoPage
    /\ UNCHANGED <<db, inflight>>

\* ------------------------------------------------------------ appointments
\* Mutant: the database constraint is missing.
UniqueTogetherOk_NoConstraint(rows, row) == TRUE

\* Appointment.Meta.unique_together, enforced by the database on INSERT and
\* UPDATE: no other row has the same (doctor, appointment_date, appointment_time).
UniqueTogetherOk(rows, row) ==
    ~ \E o \in rows :
        /\ o.id # row.id
        /\ o.doctor = row.doctor
        /\ o.date = row.date
        /\ o.time = row.time

\* Appointment.save: end_time is filled in only while it is empty.
AppointmentSave(a) ==
    IF a.end_time = NULL
    THEN [a EXCEPT !.end_time = AddMinutes(a.time, ApptMinutes)]
    ELSE a

\* Notification.objects.create / update_or_create's insert
NewNotification(recipient, type, related, appt) ==
    [id |-> Cardinality(notifications) + 1, recipient |-> recipient,
     type |-> type, related_object_id |-> related, action_url |-> appt,
     is_read |-> FALSE, is_deleted |-> FALSE, deleted_at |-> NoInstant]

\* Mutant: the signal ignores the created flag.
AppointmentNotification_EverySave(a, created) ==
    {NewNotification(a.doctor, "appointment", NULL, a.id)}

\* post_save(Appointment): a notification for the doctor, on creation only
AppointmentNotification(a, created) ==
    IF created
    THEN {NewNotification(a.doctor, "appointment", NULL, a.id)}
    ELSE {}

\* AppointmentForm.clean and Appointment.clean (run by the model form): the
\* past-date and past-time errors
PastDate(date) == date < Today

\* Mutant: the time-of-day check is forgotten.
PastTime_Never(date, time) == FALSE

PastTime(date, time) == date = Today /\ time < NowTime

\* ModelForm.validate_unique on the form's own doctor, date and time
FormUniqueError(f_doctor, date, time) ==
    \E o \in appointments :
        o.doctor = f_doctor /\ o.date = date /\ o.time = time

\* AppointmentForm(request.POST).is_valid()
AppointmentFormValid(f_doctor, date, time) ==
    /\ f_doctor \in Doctors
    /\ ~ PastDate(date)
    /\ ~ PastTime(date, time)
    /\ ~ FormUniqueError(f_doctor, date, time)

NewAppointment(patient, doctor, date, time) ==
    AppointmentSave(
      [id |-> Cardinality(appointments) + 1, patient |-> patient,
       doctor |-> doctor, date |-> date, time |-> time, end_time |-> NULL,
       status |-> "pending", payment_status |-> "pending"])

\* form.save(commit=False); appointment.save(): the INSERT, then the signal.
\* A row the database refuses raises IntegrityError: nothing is written.
SaveNewAppointment(op, patient, doctor, date, time) ==
    LET a == NewAppointment(patient, doctor, date, time) IN
    IF UniqueTogetherOk(appointments, a)
    THEN /\ appointments' = appointments \cup {a}
         /\ notifications' = notifications \cup AppointmentNotification(a, TRUE)
         /\ resp' = Resp(op, patient, "booked")
    ELSE /\ UNCHANGED <<appointments, notifications>>
         /\ resp' = Resp(op, patient, "500")

\* book_appointment(request, doctor_id), the whole request
BookAppointment(u, doctor_id, method, f_doctor, date, time) ==
    /\ slotsOut' = NoSlots
    /\ UNCHANGED site
    /\ pageOut' = NoPage
    /\ UNCHANGED <<now, availabilities, availSeq, payments, reviews, records,
                   inflight>>
    /\ IF ~ is_patient(u)
       THEN /\ resp' = Resp("book_appointment", u, "login")
            /\ UNCHANGED <<appointments, notifications>>
       ELSE IF ~ (doctor_id \in Doctors /\ DoctorIsActive(doctor_id))
       THEN /\ resp' = Resp("book_appointment", u, "404")
            /\ UNCHANGED <<appointments, notifications>>
       ELSE IF method = "GET"
       THEN /\ resp' = Resp("book_appointment", u, "render")
            /\ UNCHANGED <<appointments, notifications>>
       ELSE IF ~ AppointmentFormValid(f_doctor, date, time)
       THEN /\ resp' = Resp("book_appointment", u, "form_error")
            /\ UNCHANGED <<appointments, notifications>>
       ELSE /\ Cardinality(appointments) < MaxAppts
            /\ SaveNewAppointment("book_appointment", u, doctor_id, date, time)

Appt(pk) == CHOOSE a \in appointments : a.id = pk
ApptExists(pk) == \E a \in appointments : a.id = pk

\* Mutant: the check tests the role only, not whose appointment it is.
DetailAllowed_RoleOnly(u, a) == is_admin(u) \/ is_patient(u) \/ is_doctor(u)

\* appointment_detail's security check: admin, or the appointment's own
\* patient or doctor
DetailAllowed(u, a) ==
    \/ is_admin(u)
    \/ (is_patient(u) /\ a.patient = u)
    \/ (is_doctor(u) /\ a.doctor = u)

\* ReviewForm.is_valid(): rating within the validators' 1..5
ReviewFormValid(rating) == rating \in 1..5

\* Review.objects.update_or_create(appointment=appointment, defaults=...)
ReviewUpdateOrCreate(a, rating) ==
    {r \in reviews : r.appointment # a.id}
        \cup {[appointment |-> a.id, rating |-> rating]}

\* appointment_detail(request, pk); post is "GET", "submit_review",
\* "update_status" or "other" (a POST carrying neither key)
AppointmentDetail(u, pk, post, rating, new_status) ==
    /\ slotsOut' = NoSlots
    /\ UNCHANGED site
    /\ pageOut' = NoPage
    /\ UNCHANGED <<now, availabilities, availSeq, payments, records, inflight>>
    /\ IF ~ IsAuthenticated(u)
       THEN /\ resp' = Resp("appointment_detail", u, "login")
            /\ UNCHANGED <<appointments, reviews, notifications>>
       ELSE IF ~ ApptExists(pk)
       THEN /\ resp' = Resp("appointment_detail", u, "404")
            /\ UNCHANGED <<appointments, reviews, notifications>>
       ELSE LET a == Appt(pk) IN
         IF ~ DetailAllowed(u, a)
         THEN /\ resp' = Resp("appointment_detail", u, "403")
              /\ UNCHANGED <<appointments, reviews, notifications>>
         ELSE IF post # "GET" /\ is_patient(u) /\ post = "submit_review"
         THEN IF a.status = "completed" /\ ReviewFormValid(rating)
              THEN /\ reviews' = ReviewUpdateOrCreate(a, rating)
                   /\ resp' = Resp("appointment_detail", u, "reviewed")
                   /\ UNCHANGED <<appointments, notifications>>
              ELSE /\ resp' = Resp("appointment_detail", u, "render")
                   /\ UNCHANGED <<appointments, reviews, notifications>>
         ELSE IF post # "GET" /\ is_doctor(u) /\ post = "update_status"
                 /\ new_status \in STATUS_CHOICES
         THEN LET b == AppointmentSave([a EXCEPT !.status = new_status]) IN
              /\ appointments' = (appointments \ {a}) \cup {b}
              /\ notifications' =
                    notifications \cup AppointmentNotification(b, FALSE)
              /\ resp' = Resp("appointment_detail", u, "status_updated")
              /\ UNCHANGED reviews
         ELSE /\ resp' = Resp("appointment_detail", u, "render")
              /\ UNCHANGED <<appointments, reviews, notifications>>

\* reschedule_appointment's permission check
RescheduleAllowed(u, a) == is_admin(u) \/ u \in {a.patient, a.doctor}

\* AppointmentRescheduleForm.clean: an availability row of the doctor on the
\* new date's weekday that contains the new time (both ends included)
DoctorAvailableAt(d, date, time) ==
    \E v \in availabilities :
        /\ v.doctor = d
        /\ v.day_of_week = weekday(date)
        /\ v.start_time <= time
        /\ v.end_time >= time
        /\ v.is_available

\* AppointmentRescheduleForm.clean: another appointment holds the slot
RescheduleSlotTaken(a, date, time) ==
    \E o \in appointments :
        /\ o.doctor = a.doctor
        /\ o.date = date
        /\ o.time = time
        /\ o.status \in {"pending", "confirmed"}
        /\ o.id # a.id

RescheduleFormValid(a, date, time) ==
    /\ ~ PastDate(date)
    /\ ~ PastTime(date, time)
    /\ DoctorAvailableAt(a.doctor, date, time)
    /\ ~ RescheduleSlotTaken(a, date, time)

\* reschedule_appointment(request, pk)
RescheduleAppointment(u, pk, method, date, time) ==
    /\ slotsOut' = NoSlots
    /\ UNCHANGED site
    /\ pageOut' = NoPage
    /\ UNCHANGED <<now, availabilities, availSeq, payments, reviews, records,
                   inflight>>
    /\ IF ~ IsAuthenticated(u)
       THEN /\ resp' = Resp("reschedule_appointment", u, "login")
            /\ UNCHANGED <<appointments, notifications>>
       ELSE IF ~ ApptExists(pk)
       THEN /\ resp' = Resp("reschedule_appointment", u, "404")
            /\ UNCHANGED <<appointments, notifications>>
       ELSE LET a == Appt(pk) IN
         IF ~ RescheduleAllowed(u, a)
         THEN /\ resp' = Resp("reschedule_appointment", u, "403")
              /\ UNCHANGED <<appointments, notifications>>
         ELSE IF method = "GET"
         THEN /\ resp' = Resp("reschedule_appointment", u, "render")
              /\ UNCHANGED <<appointments, notifications>>
         ELSE IF ~ RescheduleFormValid(a, date, time)
         THEN /\ resp' = Resp("reschedule_appointment", u, "form_error")
              /\ UNCHANGED <<appointments, notifications>>
         ELSE LET b == AppointmentSave([a EXCEPT !.date = date, !.time = time,
                                                 !.status = "rescheduled"]) IN
              IF UniqueTogetherOk(appointments, b)
              THEN /\ appointments' = (appointments \ {a}) \cup {b}
                   /\ notifications' =
                         notifications \cup AppointmentNotification(b, FALSE)
                   /\ resp' = Resp("reschedule_appointment", u, "rescheduled")
              ELSE /\ resp' = Resp("reschedule_appointment", u, "500")
                   /\ UNCHANGED <<appointments, notifications>>

\* ------------------------------------------------------------ availability
\* DoctorAvailabilityForm.clean
\* Mutant: the form's clean() compares nothing.
AvailabilityFormValid_Always(start, end) == TRUE

\* DoctorAvailabilityForm.clean
AvailabilityFormValid(start, end) == ~ (start >= end)

\* Mutant: the overlap query finds nothing.
Overlapping_Never(d, dow, start, end) == FALSE

\* manage_availability's overlap query
Overlapping(d, dow, start, end) ==
    \E v \in availabilities :
        /\ v.doctor = d
        /\ v.day_of_week = dow
        /\ v.start_time < end
        /\ v.end_time > start

\* DoctorAvailability.Meta.unique_together, enforced by the database
AvailUniqueOk(row) ==
    ~ \E v \in availabilities :
        /\ v.doctor = row.doctor
        /\ v.day_of_week = row.day_of_week
        /\ v.start_time = row.start_time
        /\ v.end_time = row.end_time

\* manage_availability(request)
ManageAvailability(u, method, dow, start, end, is_available, valid_from, valid_to) ==
    /\ slotsOut' = NoSlots
    /\ UNCHANGED site
    /\ pageOut' = NoPage
    /\ UNCHANGED <<now, appointments, notifications, payments, reviews,
                   records, inflight>>
    /\ IF ~ is_doctor(u)
       THEN /\ resp' = Resp("manage_availability", u, "login")
            /\ UNCHANGED <<availabilities, availSeq>>
       ELSE IF method = "GET"
       THEN /\ resp' = Resp("manage_availability", u, "render")
            /\ UNCHANGED <<availabilities, availSeq>>
       ELSE IF ~ AvailabilityFormValid(start, end)
       THEN /\ resp' = Resp("manage_availability", u, "form_error")
            /\ UNCHANGED <<availabilities, availSeq>>
       ELSE IF Overlapping(u, dow, start, end)
       THEN /\ resp' = Resp("manage_availability", u, "overlap")
            /\ UNCHANGED <<availabilities, availSeq>>
       ELSE LET row == [id |-> availSeq + 1, doctor |-> u, day_of_week |-> dow,
                        start_time |-> start, end_time |-> end,
                        is_available |-> is_available,
                        valid_from |-> valid_from, valid_to |-> valid_to] IN
            /\ availSeq < MaxAvail
            /\ IF AvailUniqueOk(row)
               THEN /\ availabilities' = availabilities \cup {row}
                    /\ availSeq' = availSeq + 1
                    /\ resp' = Resp("manage_availability", u, "added")
               ELSE /\ resp' = Resp("manage_availability", u, "500")
                    /\ UNCHANGED <<availabilities, availSeq>>

\* get_object_or_404(DoctorAvailability, pk=pk, doctor__user=request.user)
OwnAvailability(u, pk) == \E v \in availabilities : v.id = pk /\ v.doctor = u

\* delete_availability(request, pk)
DeleteAvailability(u, pk) ==
    /\ slotsOut' = NoSlots
    /\ UNCHANGED site
    /\ pageOut' = NoPage
    /\ UNCHANGED <<now, appointments, notifications, payments, reviews,
                   records, availSeq, inflight>>
    /\ IF ~ is_doctor(u)
       THEN /\ resp' = Resp("delete_availability", u, "login")
            /\ UNCHANGED availabilities
       ELSE IF ~ OwnAvailability(u, pk)
       THEN /\ resp' = Resp("delete_availability", u, "404")
            /\ UNCHANGED availabilities
       ELSE /\ availabilities' = {v \in availabilities : v.id # pk}
            /\ resp' = Resp("delete_availability", u, "deleted")

\* ---------------------------------------------------------------- time slots
Min(S) == CHOOSE x \in S : \A y \in S : x <= y

\* sorted(..., key=lambda x: x['start'])
RECURSIVE SortedSeq(_)
SortedSeq(S) ==
    IF S = {} THEN <<>>
    ELSE LET m == Min(S) IN <<m>> \o SortedSeq(S \ {m})

\* The availability rows get_available_time_slots loops over
SlotWindows(d, date) ==
    {v \in availabilities :
        /\ v.doctor = d
        /\ v.day_of_week = weekday(date)
        /\ v.is_available
        /\ (v.valid_to = NULL \/ v.valid_to >= date)
        /\ v.valid_from <= date}

\* is_booked: an appointment in an active status at exactly slot_time
IsBooked(d, date, slot_time) ==
    \E a \in appointments :
        /\ a.doctor = d
        /\ a.date = date
        /\ a.time = slot_time
        /\ a.status \in {"pending", "confirmed", "rescheduled"}

\* The slot is skipped as past: only on today's date
SlotIsPast(date, slot_time) == date = Today /\ slot_time < NowTime

\* The while loop over one availability, from current_slot on: the 'start'
\* labels appended to slots
RECURSIVE WindowSlots(_, _, _, _)
WindowSlots(d, date, current_slot, end_time) ==
    IF ~ (current_slot < end_time) THEN {}
    ELSE LET rest == WindowSlots(d, date, current_slot + SlotMinutes * 60, end_time) IN
         IF SlotIsPast(date, current_slot) THEN rest
         ELSE IF ~ IsBooked(d, date, current_slot)
         THEN {FormatHM(current_slot)} \cup rest
         ELSE rest

\* unique_slots: the labels of all windows, without duplicates, sorted
AvailableSlots(d, date) ==
    SortedSeq(UNION {WindowSlots(d, date, v.start_time, v.end_time) :
                        v \in SlotWindows(d, date)})

\* get_available_time_slots(request), doctor_id and date given
GetAvailableTimeSlots(u, doctor_id, date) ==
    /\ UNCHANGED <<now, db, inflight, site>>
    /\ IF ~ IsAuthenticated(u)
       THEN /\ resp' = Resp("get_available_time_slots", u, "login")
            /\ slotsOut' = NoSlots
            /\ pageOut' = NoPage
       ELSE IF ~ (doctor_id \in Doctors /\ DoctorIsActive(doctor_id))
       THEN /\ resp' = Resp("get_available_time_slots", u, "404")
            /\ slotsOut' = NoSlots
            /\ pageOut' = NoPage
       ELSE /\ resp' = Resp("get_available_time_slots", u, "200")
            /\ pageOut' = NoPage
            /\ slotsOut' = [doctor |-> doctor_id, date |-> date,
                            slots |-> AvailableSlots(doctor_id, date)]

\* ------------------------------------------------------------ notifications
\* Mutant: the lookup forgets the recipient filter.
OwnNotification_AnyRecipient(u, pk) == \E n \in notifications : n.id = pk

\* get_object_or_404(Notification, pk=pk, recipient=request.user)
OwnNotification(u, pk) ==
    \E n \in notifications : n.id = pk /\ n.recipient = u

\* notification_mark_read(request, pk)
NotificationMarkRead(u, pk) ==
    /\ slotsOut' = NoSlots
    /\ UNCHANGED site
    /\ pageOut' = NoPage
    /\ UNCHANGED <<now, appointments, availabilities, availSeq, payments,
                   reviews, records, inflight>>
    /\ IF ~ IsAuthenticated(u)
       THEN /\ resp' = Resp("notification_mark_read", u, "login")
            /\ UNCHANGED notifications
       ELSE IF pk = 0
       THEN /\ notifications' =
                 {IF n.recipient = u /\ ~ n.is_read
                  THEN [n EXCEPT !.is_read = TRUE] ELSE n : n \in notifications}
            /\ resp' = Resp("notification_mark_read", u, "all_read")
       ELSE IF ~ OwnNotification(u, pk)
       THEN /\ resp' = Resp("notification_mark_read", u, "404")
            /\ UNCHANGED notifications
       ELSE /\ notifications' =
                 {IF n.id = pk THEN [n EXCEPT !.is_read = TRUE] ELSE n :
                     n \in notifications}
            /\ resp' = Resp("notification_mark_read", u, "redirect")

\* SoftDeleteMixin.delete
SoftDelete(n) == [n EXCEPT !.is_deleted = TRUE, !.deleted_at = now]

\* notification_delete(request, pk)
NotificationDelete(u, pk) ==
    /\ slotsOut' = NoSlots
    /\ UNCHANGED site
    /\ pageOut' = NoPage
    /\ UNCHANGED <<now, appointments, availabilities, availSeq, payments,
                   reviews, records, inflight>>
    /\ IF ~ IsAuthenticated(u)
       THEN /\ resp' = Resp("notification_delete", u, "login")
            /\ UNCHANGED notifications
       ELSE IF ~ OwnNotification(u, pk)
       THEN /\ resp' = Resp("notification_delete", u, "404")
            /\ UNCHANGED notifications
       ELSE /\ notifications' =
                 {IF n.id = pk THEN SoftDelete(n) ELSE n : n \in notifications}
            /\ resp' = Resp("notification_delete", u, "deleted")

\* Mutant: the queries forget the is_deleted filter.
VisibleNotifications_WithDeleted(u) == {n \in notifications : n.recipient = u}

\* Notification.objects.filter(recipient=request.user, is_deleted=False)
VisibleNotifications(u) ==
    {n \in notifications : n.recipient = u /\ ~ n.is_deleted}

\* .filter(is_read=False).count()
UnreadCount(u) == Cardinality({n \in VisibleNotifications(u) : ~ n.is_read})

\* .order_by('-created_at')[:5]
RecentFive(S) == {n \in S : Cardinality({m \in S : m.id > n.id}) < 5}

Page(view, u, rows, unread_count) ==
    [view |-> view, user |-> u, listed |-> {n.id : n \in rows},
     unread_count |-> unread_count]

\* notification_list(request)
NotificationList(u) ==
    /\ slotsOut' = NoSlots
    /\ UNCHANGED site
    /\ UNCHANGED <<now, db, inflight>>
    /\ IF ~ IsAuthenticated(u)
       THEN /\ resp' = Resp("notification_list", u, "login")
            /\ pageOut' = NoPage
       ELSE /\ resp' = Resp("notification_list", u, "render")
            /\ pageOut' = Page("notification_list", u, VisibleNotifications(u),
                               UnreadCount(u))

\* patient_dashboard(request)
PatientDashboard(u) ==
    /\ slotsOut' = NoSlots
    /\ UNCHANGED site
    /\ UNCHANGED <<now, db, inflight>>
    /\ IF ~ is_patient(u)
       THEN /\ resp' = Resp("patient_dashboard", u, "login")
            /\ pageOut' = NoPage
       ELSE /\ resp' = Resp("patient_dashboard", u, "render")
            /\ pageOut' = Page("patient_dashboard", u,
                               RecentFive(VisibleNotifications(u)),
                               UnreadCount(u))

\* doctor_dashboard(request)
DoctorDashboard(u) ==
    /\ slotsOut' = NoSlots
    /\ UNCHANGED site
    /\ UNCHANGED <<now, db, inflight>>
    /\ IF ~ is_doctor(u)
       THEN /\ resp' = Resp("doctor_dashboard", u, "login")
            /\ pageOut' = NoPage
       ELSE /\ resp' = Resp("doctor_dashboard", u, "render")
            /\ pageOut' = Page("doctor_dashboard", u, {}, UnreadCount(u))

\* ----------------------------------------------------------------- payments
HasPayment(a) == \E p \in payments : p.appointment = a.id
PaymentOf(a) == CHOOSE p \in payments : p.appointment = a.id

\* Mutant: a new Payment is created whether or not one exists.
GetOrCreatePayment_AlwaysCreate(a) ==
    [id |-> Cardinality(payments) + 1, appointment |-> a.id,
     patient |-> a.patient, amount |-> <<"consultation_fee", a.doctor>>,
     payment_status |-> "pending", payment_date |-> NoInstant,
     transaction_id |-> NoTxn]

\* Payment.objects.get_or_create(appointment=appointment, defaults=...)
GetOrCreatePayment(a) ==
    IF HasPayment(a) THEN PaymentOf(a)
    ELSE [id |-> Cardinality(payments) + 1, appointment |-> a.id,
          patient |-> a.patient, amount |-> <<"consultation_fee", a.doctor>>,
          payment_status |-> "pending", payment_date |-> NoInstant,
          transaction_id |-> NoTxn]

\* Payment.save: a completed payment without a transaction id gets one
PaymentSave(p) ==
    IF p.transaction_id = NoTxn /\ p.payment_status = "completed"
    THEN [p EXCEPT !.transaction_id = <<"TXN", now>>]
    ELSE p

\* Mutant: the re-payment check is missing.
AlreadyPaid_Never(a) == FALSE

\* process_payment's re-payment check
AlreadyPaid(a) == HasPayment(a) /\ PaymentOf(a).payment_status = "completed"

\* Mutant: the signal creates a notification on every save of a completed
\* payment.
PaymentNotification_AlwaysCreate(p, doctor) ==
    IF p.payment_status # "completed" THEN notifications
    ELSE notifications
            \cup {NewNotification(doctor, "payment", p.appointment, p.appointment)}

\* post_save(Payment): update_or_create of the doctor's payment notification,
\* only for a completed payment
PaymentNotification(p, doctor) ==
    IF p.payment_status # "completed" THEN notifications
    ELSE IF \E n \in notifications :
               /\ n.recipient = doctor
               /\ n.type = "payment"
               /\ n.related_object_id = p.appointment
         THEN notifications
         ELSE notifications
                \cup {NewNotification(doctor, "payment", p.appointment, p.appointment)}

\* get_object_or_404(Appointment, pk=appointment_id, patient__user=request.user)
PatientAppointment(u, appointment_id) ==
    \E a \in appointments : a.id = appointment_id /\ a.patient = u

\* process_payment(request, appointment_id)
ProcessPayment(u, appointment_id, method, form_valid) ==
    /\ slotsOut' = NoSlots
    /\ UNCHANGED site
    /\ pageOut' = NoPage
    /\ UNCHANGED <<now, availabilities, availSeq, reviews, records, inflight>>
    /\ IF ~ is_patient(u)
       THEN /\ resp' = Resp("process_payment", u, "login")
            /\ UNCHANGED <<appointments, payments, notifications>>
       ELSE IF ~ PatientAppointment(u, appointment_id)
       THEN /\ resp' = Resp("process_payment", u, "404")
            /\ UNCHANGED <<appointments, payments, notifications>>
       ELSE LET a == Appt(appointment_id) IN
         IF AlreadyPaid(a)
         THEN /\ resp' = Resp("process_payment", u, "already_paid")
              /\ UNCHANGED <<appointments, payments, notifications>>
         ELSE LET p == GetOrCreatePayment(a) IN
           IF method = "POST" /\ form_valid
           THEN LET q == [p EXCEPT !.payment_status = "completed",
                                   !.payment_date = now,
                                   !.transaction_id = <<"TXN-SIM", now>>]
                     b == AppointmentSave([a EXCEPT !.payment_status = "paid"])
                IN
                /\ payments' = (payments \ {p}) \cup {PaymentSave(q)}
                /\ notifications' = PaymentNotification(q, a.doctor)
                                        \cup AppointmentNotification(b, FALSE)
                /\ appointments' = (appointments \ {a}) \cup {b}
                /\ resp' = Resp("process_payment", u, "paid")
           ELSE /\ payments' = payments \cup {p}
                /\ resp' = Resp("process_payment", u, "render")
                /\ UNCHANGED <<appointments, notifications>>

\* The admin site's login check (is_active and is_staff); createsuperuser
\* makes staff users.
IsStaff(u) == IsSuperuser(u)

\* The admin site's change form of a Payment (admin.site.register(Payment)),
\* posted with a payment_status: Payment.save, then post_save
AdminSavePayment(u, pk, status) ==
    /\ slotsOut' = NoSlots
    /\ UNCHANGED site
    /\ pageOut' = NoPage
    /\ UNCHANGED <<now, appointments, availabilities, availSeq, reviews,
                   records, inflight>>
    /\ IF ~ IsStaff(u)
       THEN /\ resp' = Resp("admin_payment_change", u, "login")
            /\ UNCHANGED <<payments, notifications>>
       ELSE IF ~ \E p \in payments : p.id = pk
       THEN /\ resp' = Resp("admin_payment_change", u, "404")
            /\ UNCHANGED <<payments, notifications>>
       ELSE LET p == CHOOSE x \in payments : x.id = pk
                q == PaymentSave([p EXCEPT !.payment_status = status])
            IN  /\ payments' = (payments \ {p}) \cup {q}
                /\ notifications' =
                      PaymentNotification(q, Appt(q.appointment).doctor)
                /\ resp' = Resp("admin_payment_change", u, "saved")

\* ----------------------------------------------------------- medical records
\* get_object_or_404(Appointment, pk=appointment_id, doctor__user=request.user)
DoctorAppointment(u, appointment_id) ==
    \E a \in appointments : a.id = appointment_id /\ a.doctor = u

\* Mutant: the existence check finds nothing.
RecordExists_Never(a) == FALSE

\* MedicalRecord.objects.filter(appointment=appointment).exists()
RecordExists(a) == \E r \in records : r.appointment = a.id

\* create_medical_record(request, appointment_id)
CreateMedicalRecord(u, appointment_id, method, form_valid) ==
    /\ slotsOut' = NoSlots
    /\ UNCHANGED site
    /\ pageOut' = NoPage
    /\ UNCHANGED <<now, appointments, availabilities, availSeq, payments,
                   reviews, notifications, inflight>>
    /\ IF ~ is_doctor(u)
       THEN /\ resp' = Resp("create_medical_record", u, "login")
            /\ UNCHANGED records
       ELSE IF ~ DoctorAppointment(u, appointment_id)
       THEN /\ resp' = Resp("create_medical_record", u, "404")
            /\ UNCHANGED records
       ELSE LET a == Appt(appointment_id) IN
         IF RecordExists(a)
         THEN /\ resp' = Resp("create_medical_record", u, "exists")
              /\ UNCHANGED records
         ELSE IF method = "POST" /\ form_valid
         THEN /\ records' = records \cup
                    {[id |-> Cardinality(records) + 1, appointment |-> a.id,
                      patient |-> a.patient, doctor |-> a.doctor]}
              /\ resp' = Resp("create_medical_record", u, "created")
         ELSE /\ resp' = Resp("create_medical_record", u, "render")
              /\ UNCHANGED records

\* MedicalRecord.doctor when null
NoDoctor == "none"

\* The admin site's change form of a MedicalRecord
\* (admin.site.register(MedicalRecord)), posted with a doctor or with the
\* doctor field left blank (the field is null=True, blank=True)
AdminSaveRecord(u, pk, doctor) ==
    /\ slotsOut' = NoSlots
    /\ UNCHANGED site
    /\ pageOut' = NoPage
    /\ UNCHANGED <<now, appointments, availabilities, availSeq, payments,
                   reviews, notifications, inflight>>
    /\ IF ~ IsStaff(u)
       THEN /\ resp' = Resp("admin_record_change", u, "login")
            /\ UNCHANGED records
       ELSE IF ~ \E r \in records : r.id = pk
       THEN /\ resp' = Resp("admin_record_change", u, "404")
            /\ UNCHANGED records
       ELSE /\ records' = {IF r.id = pk THEN [r EXCEPT !.doctor = doctor] ELSE r :
                              r \in records}
            /\ resp' = Resp("admin_record_change", u, "saved")

\* medical_record_detail(request, pk); record.doctor.user on a record without
\* doctor raises AttributeError
MedicalRecordDetail(u, pk) ==
    /\ slotsOut' = NoSlots
    /\ UNCHANGED site
    /\ pageOut' = NoPage
    /\ UNCHANGED <<now, db, inflight>>
    /\ IF ~ IsAuthenticated(u)
       THEN resp' = Resp("medical_record_detail", u, "login")
       ELSE IF ~ \E r \in records : r.id = pk
       THEN resp' = Resp("medical_record_detail", u, "404")
       ELSE LET record == CHOOSE r \in records : r.id = pk IN
         IF is_patient(u) /\ record.patient # u
         THEN resp' = Resp("medical_record_detail", u, "403")
         ELSE IF is_doctor(u) /\ record.doctor = NoDoctor
         THEN resp' = Resp("medical_record_detail", u, "500")
         ELSE IF is_doctor(u) /\ record.doctor # u
         THEN resp' = Resp("medical_record_detail", u, "403")
         ELSE resp' = Resp("medical_record_detail", u, "render")

\* ------------------------------------------------------------------ accounts
ROLE_CHOICES == {"patient", "doctor", "admin"}

\* The usernames new accounts are given
NewNames == {"n1", "n2"}

\* No user: authenticate() returning None
NoUser == "none"

\* The password of an account; the users who exist from the start share one
\* this model's visitors are never given.
Password(u) ==
    IF u \in AccountNames
    THEN (CHOOSE acc \in accounts : acc.username = u).password
    ELSE "secret"

\* django.contrib.auth.authenticate(request, username=..., password=...)
Authenticate(username, password) ==
    IF username \in Users \cup AccountNames /\ Password(username) = password
    THEN username
    ELSE NoUser

Account(username, role, password) ==
    [username |-> username, role |-> role, password |-> password]

\* The requests below but add_doctor come from the one browser, whose
\* logged-in user is session.
AuthFrame ==
    /\ slotsOut' = NoSlots
    /\ pageOut' = NoPage
    /\ UNCHANGED <<now, db, inflight>>

\* register(request); the form's role field offers User.ROLE_CHOICES
Register(method, username, role, password, form_ok) ==
    /\ AuthFrame
    /\ IF session # Anon
       THEN /\ resp' = Resp("register", session, "home")
            /\ UNCHANGED site
       ELSE IF method = "GET"
       THEN /\ resp' = Resp("register", session, "render")
            /\ UNCHANGED site
       ELSE IF ~ (form_ok /\ role \in ROLE_CHOICES
                    /\ username \notin Users \cup AccountNames)
       THEN /\ resp' = Resp("register", session, "form_error")
            /\ UNCHANGED site
       ELSE /\ Cardinality(accounts) < MaxAccounts
            /\ accounts' = accounts \cup {Account(username, role, password)}
            /\ session' = username
            /\ doctorRows' = IF role = "doctor"
                             THEN doctorRows \cup {username}
                             ELSE doctorRows
            /\ resp' = Resp("register", username, "registered")

\* Mutant: the posted role is not compared with the stored one.
LoginAccepted_AnyRole(user, role) == user # NoUser

\* user_login's test: user is not None and user.role == role
LoginAccepted(user, role) == user # NoUser /\ Role(user) = role

\* user_login(request)
UserLogin(method, username, password, role) ==
    /\ AuthFrame
    /\ UNCHANGED <<accounts, doctorRows>>
    /\ IF session # Anon
       THEN /\ resp' = Resp("user_login", session, "home")
            /\ UNCHANGED session
       ELSE IF method = "GET"
       THEN /\ resp' = Resp("user_login", session, "render")
            /\ UNCHANGED session
       ELSE LET user == Authenticate(username, password) IN
            IF LoginAccepted(user, role)
            THEN /\ session' = user
                 /\ resp' = Resp("user_login", user, "dashboard")
            ELSE /\ resp' = Resp("user_login", session, "invalid")
                 /\ UNCHANGED session

\* user_logout(request)
UserLogout ==
    /\ AuthFrame
    /\ UNCHANGED <<accounts, doctorRows>>
    /\ IF session = Anon
       THEN /\ resp' = Resp("user_logout", session, "login")
            /\ UNCHANGED session
       ELSE /\ session' = Anon
            /\ resp' = Resp("user_logout", session, "home")

\* The User row of u with another role
WithRole(u, role) == Account(u, role, Password(u))

\* profile_view(request). The view first makes sure the Doctor row of a
\* doctor-role user exists. On a POST, is_valid() of the user form writes a
\* valid posted role to request.user in memory, whatever the other fields, so
\* the branches that follow test the new role: the doctor or patient form is
\* then built from a local variable assigned only when the stored role was
\* that one (UnboundLocalError otherwise, nothing saved); with another new
\* role the forms are saved: the user form first, then the unbound doctor or
\* patient form of the stored role, whose save() fails after the role is
\* written.
ProfileView(method, role, forms_ok) ==
    /\ AuthFrame
    /\ UNCHANGED session
    /\ IF session = Anon
       THEN /\ resp' = Resp("profile_view", session, "login")
            /\ UNCHANGED <<accounts, doctorRows>>
       ELSE LET stored == Role(session) IN
         /\ doctorRows' = IF stored = "doctor" /\ session \in AccountNames
                          THEN doctorRows \cup {session}
                          ELSE doctorRows
         /\ IF method = "GET"
            THEN /\ resp' = Resp("profile_view", session, "render")
                 /\ UNCHANGED accounts
            ELSE IF role \in {"doctor", "patient"} /\ stored # role
            THEN /\ resp' = Resp("profile_view", session, "500")
                 /\ UNCHANGED accounts
            ELSE IF role \notin ROLE_CHOICES \/ ~ forms_ok
            THEN /\ resp' = Resp("profile_view", session, "render")
                 /\ UNCHANGED accounts
            ELSE /\ accounts' = {acc \in accounts : acc.username # session}
                                   \cup {WithRole(session, role)}
                 /\ resp' = Resp("profile_view", session,
                                 IF stored # role /\ stored \in {"doctor", "patient"}
                                 THEN "500" ELSE "updated")

\* The fields of the Doctor model that Doctor(...) accepts as keywords, those
\* of them that are NOT NULL without a default, and the keywords add_doctor
\* passes to Doctor.objects.create
DoctorFields ==
    {"user", "experience_years", "consultation_fee", "license_number",
     "clinic_address", "available_days", "available_from", "available_to",
     "is_active", "education", "languages", "awards"}
DoctorRequired ==
    {"user", "experience_years", "consultation_fee", "available_from",
     "available_to"}
AddDoctorKwargs ==
    {"user", "specialization", "license_number", "experience_years",
     "consultation_fee", "clinic_address"}

\* Doctor.objects.create(**kwargs) succeeds: no unexpected keyword (TypeError)
\* and no required column left null (IntegrityError)
DoctorCreateOk(kwargs) == kwargs \subseteq DoctorFields /\ DoctorRequired \subseteq kwargs

\* add_doctor(request): User.objects.create_user(..., role='doctor'), then
\* Doctor.objects.create(...), outside any transaction
AddDoctor(u, method, username, form_ok) ==
    /\ AuthFrame
    /\ UNCHANGED session
    /\ IF ~ is_admin(u)
       THEN /\ resp' = Resp("add_doctor", u, "login")
            /\ UNCHANGED <<accounts, doctorRows>>
       ELSE IF method = "GET"
       THEN /\ resp' = Resp("add_doctor", u, "render")
            /\ UNCHANGED <<accounts, doctorRows>>
       ELSE IF ~ (form_ok /\ username \notin Users \cup AccountNames)
       THEN /\ resp' = Resp("add_doctor", u, "form_error")
            /\ UNCHANGED <<accounts, doctorRows>>
       ELSE /\ Cardinality(accounts) < MaxAccounts
            /\ accounts' = accounts \cup {Account(username, "doctor", "pw")}
            /\ IF DoctorCreateOk(AddDoctorKwargs)
               THEN /\ doctorRows' = doctorRows \cup {username}
                    /\ resp' = Resp("add_doctor", u, "created")
               ELSE /\ resp' = Resp("add_doctor", u, "500")
                    /\ UNCHANGED doctorRows

\* ------------------------------------------------- book_appointment, in steps
\* Requests run in parallel server threads: the form's validation and the
\* save are separate database round trips, and another request may run in
\* between. inflight holds the requests that have got past a step.
Inflight(u, doctor_id, f_doctor, date, time, pc) ==
    [user |-> u, doctor |-> doctor_id, f_doctor |-> f_doctor, date |-> date,
     time |-> time, pc |-> pc]

\* book_appointment up to form.is_valid()
BookValidate(u, doctor_id, f_doctor, date, time) ==
    /\ is_patient(u)
    /\ doctor_id \in Doctors /\ DoctorIsActive(doctor_id)
    /\ ~ \E r \in inflight : r.user = u
    /\ inflight' = inflight \cup
         {Inflight(u, doctor_id, f_doctor, date, time,
                   IF AppointmentFormValid(f_doctor, date, time)
                   THEN "valid" ELSE "form_error")}
    /\ resp' = Resp("book_appointment", u,
                    IF AppointmentFormValid(f_doctor, date, time)
                    THEN "validating" ELSE "form_error")
    /\ slotsOut' = NoSlots
    /\ UNCHANGED site
    /\ pageOut' = NoPage
    /\ UNCHANGED <<now, db>>

\* book_appointment from appointment.save() on, for a request whose form was valid
BookSave(r) ==
    /\ r \in inflight
    /\ r.pc = "valid"
    /\ SaveNewAppointment("book_appointment", r.user, r.doctor, r.date, r.time)
    /\ inflight' = (inflight \ {r}) \cup {[r EXCEPT !.pc = resp'.outcome]}
    /\ slotsOut' = NoSlots
    /\ UNCHANGED site
    /\ pageOut' = NoPage
    /\ UNCHANGED <<now, availabilities, availSeq, payments, reviews, records>>

\* -------------------------------------------------- process_payment, in steps
\* A request of process_payment makes its database round trips one by one,
\* each committed on its own, and keeps what it read in local variables:
\* appt is its Appointment object, payment its Payment object (none before
\* get_or_create).
PayInflight(req, u, a, payment, pc) ==
    [req |-> req, user |-> u, appt |-> a, payment |-> payment, pc |-> pc]

PayFrame ==
    /\ slotsOut' = NoSlots
    /\ UNCHANGED site
    /\ pageOut' = NoPage
    /\ UNCHANGED <<now, availabilities, availSeq, reviews, records>>

\* process_payment up to the re-payment check
PayCheck(req, u, appointment_id) ==
    /\ PayFrame
    /\ ~ \E r \in inflight : r.req = req
    /\ UNCHANGED <<appointments, payments, notifications>>
    /\ IF ~ is_patient(u)
       THEN /\ resp' = Resp("process_payment", u, "login")
            /\ UNCHANGED inflight
       ELSE IF ~ PatientAppointment(u, appointment_id)
       THEN /\ resp' = Resp("process_payment", u, "404")
            /\ UNCHANGED inflight
       ELSE LET a == Appt(appointment_id) IN
         IF AlreadyPaid(a)
         THEN /\ resp' = Resp("process_payment", u, "already_paid")
              /\ UNCHANGED inflight
         ELSE /\ resp' = Resp("process_payment", u, "checked")
              /\ inflight' = inflight \cup {PayInflight(req, u, a, {}, "checked")}

\* Payment.objects.get_or_create(appointment=appointment, defaults=...): the
\* row of the appointment as it is now, or a new one; a create that loses to
\* another request's create fails on the one-to-one column and the row is
\* fetched instead.
PayGetOrCreate(r) ==
    /\ PayFrame
    /\ r \in inflight
    /\ r.pc = "checked"
    /\ LET p == GetOrCreatePayment(r.appt) IN
         /\ payments' = payments \cup {p}
         /\ inflight' = (inflight \ {r}) \cup {[r EXCEPT !.payment = {p},
                                                        !.pc = "fetched"]}
    /\ resp' = Resp("process_payment", r.user, "fetched")
    /\ UNCHANGED <<appointments, notifications>>

\* process_payment from the method test on: payment.save() and
\* appointment.save() write the request's own objects over the rows
PaySave(r, method, form_valid) ==
    /\ PayFrame
    /\ r \in inflight
    /\ r.pc = "fetched"
    /\ inflight' = inflight \ {r}
    /\ IF method = "POST" /\ form_valid
       THEN \E p \in r.payment :
            LET q == [p EXCEPT !.payment_status = "completed",
                               !.payment_date = now,
                               !.transaction_id = <<"TXN-SIM", now>>]
                b == AppointmentSave([r.appt EXCEPT !.payment_status = "paid"])
            IN
            /\ payments' = {x \in payments : x.id # q.id} \cup {PaymentSave(q)}
            /\ notifications' = PaymentNotification(q, r.appt.doctor)
                                    \cup AppointmentNotification(b, FALSE)
            /\ appointments' = {x \in appointments : x.id # b.id} \cup {b}
            /\ resp' = Resp("process_payment", r.user, "paid")
       ELSE /\ resp' = Resp("process_payment", r.user, "render")
            /\ UNCHANGED <<appointments, payments, notifications>>

\* ------------------------------------------------------------ specifications
ApptIds == 1..MaxAppts
Dates == {0, 1}
T0900 == T(9, 0, 0)
T0930 == T(9, 30, 0)
T1000 == T(10, 0, 0)

\* Spec: one patient books with two doctors; the appointments are rescheduled
\* by the patient or an admin and their status is set by the doctors, who
\* declare when they are available.
BookPost ==
    \E doctor_id \in Doctors, f_doctor \in Doctors, date \in Dates :
        BookAppointment("p1", doctor_id, "POST", f_doctor, date, T0930)

ReschedulePost ==
    \E u \in {"p1", "adm"}, pk \in ApptIds, date \in Dates :
        RescheduleAppointment(u, pk, "POST", date, T0930)

DetailStatus ==
    \E u \in Doctors, pk \in ApptIds, new_status \in STATUS_CHOICES :
        AppointmentDetail(u, pk, "update_status", 0, new_status)

AvailPost ==
    \E u \in Doctors :
        ManageAvailability(u, "POST", weekday(1), T0900, T1000, TRUE, 0, NULL)

Next ==
    \/ BookPost
    \/ ReschedulePost
    \/ DetailStatus
    \/ AvailPost

Spec == Init /\ [][Next]_vars

\* SpecConflict: two patients compete for the slots of doctor d1, whose status
\* updates make the appointments active or not.
ConflictBook ==
    \E u \in {"p1", "p2"}, f_doctor \in Doctors, date \in Dates :
        BookAppointment(u, "d1", "POST", f_doctor, date, T0930)

ConflictStatus ==
    \E pk \in ApptIds, new_status \in STATUS_CHOICES :
        AppointmentDetail("d1", pk, "update_status", 0, new_status)

NextConflict ==
    \/ ConflictBook
    \/ ConflictStatus

SpecConflict == Init /\ [][NextConflict]_vars

\* SpecClock: time passes while patient p1 books and reschedules with doctor
\* d1, on dates and times that come to lie in the past.
ClockBook ==
    \E date \in Dates, time \in {T0900, T0930} :
        BookAppointment("p1", "d1", "POST", "d1", date, time)

ClockReschedule ==
    \E pk \in ApptIds, date \in Dates, time \in {T0900, T0930} :
        RescheduleAppointment("p1", pk, "POST", date, time)

ClockAvail ==
    \E dow \in {weekday(d) : d \in Dates} :
        ManageAvailability("d1", "POST", dow, T0900, T1000, TRUE, 0, NULL)

NextClock ==
    \/ Tick
    \/ ClockBook
    \/ ClockReschedule
    \/ ClockAvail

SpecClock == Init /\ [][NextClock]_vars

\* SpecPerm: every kind of requester opens, reviews, updates and reschedules
\* the appointments of p1 with d1 and of p2 with d2.
PermBook ==
    \E pair \in {<<"p1", "d1">>, <<"p2", "d2">>} :
        BookAppointment(pair[1], pair[2], "POST", pair[2], 1, T0930)

PermAvail ==
    ManageAvailability("d1", "POST", weekday(1), T0900, T1000, TRUE, 0, NULL)

PermDetailGet ==
    \E u \in Requesters, pk \in ApptIds, post \in {"GET", "other"} :
        AppointmentDetail(u, pk, post, 0, "bogus")

PermDetailStatus ==
    \E u \in Requesters, pk \in ApptIds, new_status \in {"completed", "bogus"} :
        AppointmentDetail(u, pk, "update_status", 0, new_status)

PermDetailReview ==
    \E u \in Requesters, pk \in ApptIds, rating \in {0, 5} :
        AppointmentDetail(u, pk, "submit_review", rating, "bogus")

PermReschedule ==
    \E u \in Requesters, pk \in ApptIds, method \in {"GET", "POST"} :
        RescheduleAppointment(u, pk, method, 1, T1000)

NextPerm ==
    \/ PermBook
    \/ PermAvail
    \/ PermDetailGet
    \/ PermDetailStatus
    \/ PermDetailReview
    \/ PermReschedule

SpecPerm == Init /\ [][NextPerm]_vars

\* SpecRace: the two patients' book_appointment requests interleave.
RaceValidate ==
    \E u \in {"p1", "p2"}, doctor_id \in Doctors, f_doctor \in Doctors,
       date \in Dates :
        BookValidate(u, doctor_id, f_doctor, date, T0930)

RaceSave == \E r \in inflight : BookSave(r)

NextRace ==
    \/ RaceValidate
    \/ RaceSave

SpecRace == Init /\ [][NextRace]_vars

\* SpecSlots: doctor d1 declares windows (on whole minutes and not, available
\* and not, valid now, later or no longer), patient p1 books and d1 cancels,
\* time passes, and the time-slot endpoint is asked about every date.
AvailRow(dow, start, end, is_available, valid_from, valid_to) ==
    [dow |-> dow, start |-> start, end |-> end, is_available |-> is_available,
     valid_from |-> valid_from, valid_to |-> valid_to]

SlotsAvailInputs ==
    {AvailRow(0, T0900, T1000, TRUE, 0, NULL),
     AvailRow(1, T0900, T1000, TRUE, 0, NULL),
     AvailRow(1, T(9, 0, 30), T1000, TRUE, 0, NULL),
     AvailRow(1, T1000, T(10, 45, 0), TRUE, 0, NULL),
     AvailRow(0, T1000, T(10, 45, 0), FALSE, 0, NULL),
     AvailRow(1, T1000, T(10, 45, 0), TRUE, 2, NULL),
     AvailRow(1, T1000, T(10, 45, 0), TRUE, 0, 0)}

SlotsAvail ==
    \E r \in SlotsAvailInputs :
        ManageAvailability("d1", "POST", r.dow, r.start, r.end, r.is_available,
                           r.valid_from, r.valid_to)

SlotsBook ==
    \E date \in Dates, time \in {T0900, T0930} :
        BookAppointment("p1", "d1", "POST", "d1", date, time)

SlotsCancel ==
    \E pk \in ApptIds :
        AppointmentDetail("d1", pk, "update_status", 0, "cancelled")

SlotsGet ==
    \E doctor_id \in {"d1", "d9"}, date \in Dates :
        GetAvailableTimeSlots("p1", doctor_id, date)

NextSlots ==
    \/ Tick
    \/ SlotsAvail
    \/ SlotsBook
    \/ SlotsCancel
    \/ SlotsGet

SpecSlots == Init /\ [][NextSlots]_vars

\* SpecOwner: patient p1 books with doctor d1, who declares a window, and
\* every requester asks for every existing notification, availability and
\* appointment: to mark it read, to delete it, to pay for it, to write its
\* medical record.
OwnerRequesters == {Anon, "p1", "p2", "d1", "d2", "adm"}

OwnerBook == BookAppointment("p1", "d1", "POST", "d1", 1, T0930)

OwnerAvail ==
    ManageAvailability("d1", "POST", weekday(1), T0900, T1000, TRUE, 0, NULL)

OwnerMarkRead ==
    \E u \in OwnerRequesters, n \in notifications :
        NotificationMarkRead(u, n.id)

OwnerMarkAllRead ==
    \E u \in OwnerRequesters : NotificationMarkRead(u, 0)

OwnerNotificationDelete ==
    \E u \in OwnerRequesters, n \in notifications :
        NotificationDelete(u, n.id)

OwnerDeleteAvailability ==
    \E u \in OwnerRequesters, v \in availabilities :
        DeleteAvailability(u, v.id)

OwnerPay ==
    \E u \in OwnerRequesters, a \in appointments :
        ProcessPayment(u, a.id, "POST", TRUE)

OwnerRecord ==
    \E u \in OwnerRequesters, a \in appointments :
        CreateMedicalRecord(u, a.id, "POST", TRUE)

NextOwner ==
    \/ OwnerBook
    \/ OwnerAvail
    \/ OwnerMarkRead
    \/ OwnerMarkAllRead
    \/ OwnerNotificationDelete
    \/ OwnerDeleteAvailability
    \/ OwnerPay
    \/ OwnerRecord

SpecOwner == Init /\ [][NextOwner]_vars

\* SpecNotif: patient p1 books with doctor d1 and pays; d1 reads, deletes and
\* lists the notifications and the dashboards are opened while time passes.
NotifBook == BookAppointment("p1", "d1", "POST", "d1", 1, T0930)

NotifPay ==
    \E a \in appointments : ProcessPayment("p1", a.id, "POST", TRUE)

NotifMarkRead ==
    \E pk \in {0} \cup {n.id : n \in notifications} :
        NotificationMarkRead("d1", pk)

NotifDelete ==
    \E n \in notifications : NotificationDelete("d1", n.id)

NotifList ==
    \E u \in {Anon, "d1", "d2"} : NotificationList(u)

NotifPatientDashboard ==
    \E u \in {"p1", "d1"} : PatientDashboard(u)

NotifDoctorDashboard ==
    \E u \in {"p1", "d1"} : DoctorDashboard(u)

NextNotif ==
    \/ Tick
    \/ NotifBook
    \/ NotifPay
    \/ NotifMarkRead
    \/ NotifDelete
    \/ NotifList
    \/ NotifPatientDashboard
    \/ NotifDoctorDashboard

SpecNotif == Init /\ [][NextNotif]_vars

\* SpecSignal: patient p1 books with both doctors, reschedules and pays, and
\* the doctors set the status: every path that saves an Appointment.
SignalBook ==
    \E d \in Doctors : BookAppointment("p1", d, "POST", d, 1, T0930)

SignalStatus ==
    \E u \in Doctors, pk \in ApptIds, new_status \in {"confirmed", "cancelled"} :
        AppointmentDetail(u, pk, "update_status", 0, new_status)

SignalReschedule ==
    \E pk \in ApptIds : RescheduleAppointment("p1", pk, "POST", 1, T1000)

SignalAvail ==
    ManageAvailability("d1", "POST", weekday(1), T0900, T(11, 0, 0), TRUE, 0,
                       NULL)

SignalPay ==
    \E pk \in ApptIds, form_valid \in BOOLEAN :
        ProcessPayment("p1", pk, "POST", form_valid)

NextSignal ==
    \/ SignalBook
    \/ SignalStatus
    \/ SignalReschedule
    \/ SignalAvail
    \/ SignalPay

SpecSignal == Init /\ [][NextSignal]_vars

\* SpecAvail: doctor d1 posts windows of every shape (start before, at and
\* after the end; overlapping, touching and apart; available or not, valid
\* now or later), doctor d2 posts one window, and both delete windows.
AvailTimes == {T0900, T0930, T1000}
AvailFlags == {<<TRUE, 0, NULL>>, <<FALSE, 1, 1>>}
AvailDows == {0, 1}

AvailAdd ==
    \E dow \in AvailDows, start \in AvailTimes, end \in AvailTimes,
       f \in AvailFlags :
        ManageAvailability("d1", "POST", dow, start, end, f[1], f[2], f[3])

AvailAddOther ==
    ManageAvailability("d2", "POST", 1, T0900, T1000, TRUE, 0, NULL)

AvailGet ==
    \E u \in {"d1", "p1"} :
        ManageAvailability(u, "GET", 0, T0900, T0900, TRUE, 0, NULL)

AvailDelete ==
    \E u \in Doctors, v \in availabilities : DeleteAvailability(u, v.id)

NextAvail ==
    \/ AvailAdd
    \/ AvailAddOther
    \/ AvailGet
    \/ AvailDelete

SpecAvail == Init /\ [][NextAvail]_vars

\* SpecPay: patient p1 books with doctor d1 and opens and posts the payment
\* page, valid or not, as does patient p2; a staff user saves payments in the
\* admin site with one status or another; d1 deletes notifications; time
\* passes.
PayBook == BookAppointment("p1", "d1", "POST", "d1", 1, T0930)

PayRequest ==
    \E u \in {"p1", "p2"}, a \in appointments, method \in {"GET", "POST"},
       form_valid \in BOOLEAN :
        ProcessPayment(u, a.id, method, form_valid)

PayAdminSave ==
    \E u \in {"root", "adm"}, p \in payments,
       status \in {"pending", "completed", "refunded"} :
        AdminSavePayment(u, p.id, status)

PayNotificationDelete ==
    \E n \in notifications : NotificationDelete("d1", n.id)

NextPay ==
    \/ Tick
    \/ PayBook
    \/ PayRequest
    \/ PayAdminSave
    \/ PayNotificationDelete

SpecPay == Init /\ [][NextPay]_vars

\* SpecRecord: patients p1 and p2 book with doctors d1 and d2, every doctor
\* and a patient ask to write the record of every appointment, a staff user
\* changes or blanks a record's doctor in the admin site, and every requester
\* opens every record.
RecordBook ==
    \E r \in {<<"p1", "d1">>, <<"p2", "d2">>} :
        BookAppointment(r[1], r[2], "POST", r[2], 1, T0930)

RecordCreate ==
    \E u \in {"d1", "d2", "sudoc", "p1"}, a \in appointments,
       method \in {"GET", "POST"}, form_valid \in BOOLEAN :
        CreateMedicalRecord(u, a.id, method, form_valid)

RecordAdminSave ==
    \E u \in {"root", "adm"}, r \in records, doctor \in {NoDoctor, "d2"} :
        AdminSaveRecord(u, r.id, doctor)

RecordDetail ==
    \E u \in Requesters, pk \in 1..MaxAppts : MedicalRecordDetail(u, pk)

NextRecord ==
    \/ RecordBook
    \/ RecordCreate
    \/ RecordAdminSave
    \/ RecordDetail

SpecRecord == Init /\ [][NextRecord]_vars

\* SpecAccount: a visitor registers with any role, logs in and out with right
\* and wrong passwords and roles, and edits the role in the profile; the admin
\* adds doctors.
AccountRegister ==
    \E method \in {"GET", "POST"}, username \in {"n1", "p1"},
       role \in ROLE_CHOICES, form_ok \in BOOLEAN :
        Register(method, username, role, "pw", form_ok)

LoginNames == {"n1", "p1", "zz"}
LoginPasswords == {"pw", "secret", "bad"}

AccountLogin ==
    \E method \in {"GET", "POST"}, username \in LoginNames,
       password \in LoginPasswords, role \in ROLE_CHOICES :
        UserLogin(method, username, password, role)

AccountLogout == UserLogout

AccountProfile ==
    \E method \in {"GET", "POST"}, role \in ROLE_CHOICES, forms_ok \in BOOLEAN :
        ProfileView(method, role, forms_ok)

AccountAddDoctor ==
    \E u \in {"adm", "d1"}, method \in {"GET", "POST"},
       username \in NewNames \cup {"d1"}, form_ok \in BOOLEAN :
        AddDoctor(u, method, username, form_ok)

NextAccount ==
    \/ AccountRegister
    \/ AccountLogin
    \/ AccountLogout
    \/ AccountProfile
    \/ AccountAddDoctor

SpecAccount == Init /\ [][NextAccount]_vars

\* SpecPayRace: patient p1 books with doctor d1 and sends process_payment
\* requests from two browser tabs, whose steps interleave while time passes.
PayRequests == {1, 2}

PayRaceBook == BookAppointment("p1", "d1", "POST", "d1", 1, T0930)

PayRaceCheck ==
    \E req \in PayRequests, u \in {"p1", "p2"}, pk \in ApptIds :
        PayCheck(req, u, pk)

PayRaceGetOrCreate == \E r \in inflight : PayGetOrCreate(r)

PayRaceSave ==
    \E r \in inflight, method \in {"GET", "POST"}, form_valid \in BOOLEAN :
        PaySave(r, method, form_valid)

NextPayRace ==
    \/ Tick
    \/ PayRaceBook
    \/ PayRaceCheck
    \/ PayRaceGetOrCreate
    \/ PayRaceSave

SpecPayRace == Init /\ [][NextPayRace]_vars

\* ------------------------------------------------------------------- claims
SameSlot(a, b) == a.doctor = b.doctor /\ a.date = b.date /\ a.time = b.time

InWindow(a) ==
    \E v \in availabilities :
        /\ v.doctor = a.doctor
        /\ v.is_available
        /\ v.day_of_week = weekday(a.date)
        /\ v.start_time <= a.time
        /\ a.time < v.end_time

\* The row the last successful book_appointment inserted
Newest == CHOOSE a \in appointments : a.id = Cardinality(appointments)

\* C1: in every reachable state no two Appointment rows have the same
\* (doctor, appointment_date, appointment_time), whatever their statuses.
C1_UniqueSlot ==
    \A a \in appointments, b \in appointments :
        a.id # b.id => ~ SameSlot(a, b)

\* C1 witness: a request for a slot another row of the doctor holds got as far
\* as the database, which refused it.
C1_Witness ==
    /\ resp.outcome = "500"
    /\ Cardinality(appointments) = 2
    /\ \E a \in appointments, b \in appointments : a.id # b.id /\ a.doctor = b.doctor

\* C7 (as claimed): an appointment book_appointment has just created lies
\* inside an availability window of its doctor.
C7_BookedInsideWindow ==
    (resp.op = "book_appointment" /\ resp.outcome = "booked") => InWindow(Newest)

ActiveStatuses == {"pending", "confirmed", "rescheduled"}

\* C3: while an active (pending, confirmed, rescheduled) appointment of
\* patient A holds (doctor, date, time), a book_appointment POST by another
\* patient B for that doctor, date and time creates no Appointment and no
\* Notification and leaves every existing appointment as it was.
C3_TakenSlotNotBooked ==
    [][\A u \in {"p1", "p2"}, f_doctor \in Doctors, date \in Dates :
          (/\ BookAppointment(u, "d1", "POST", f_doctor, date, T0930)
           /\ \E a \in appointments :
                 /\ a.patient # u
                 /\ a.doctor = "d1" /\ a.date = date /\ a.time = T0930
                 /\ a.status \in ActiveStatuses)
          => /\ appointments' = appointments
             /\ notifications' = notifications]_vars

\* C3 witness: p2's booking reached the database and was refused while every
\* row is an active appointment of p1 with d1.
C3_Witness ==
    /\ resp = Resp("book_appointment", "p2", "500")
    /\ appointments # {}
    /\ \A a \in appointments :
          a.patient = "p1" /\ a.doctor = "d1" /\ a.status \in ActiveStatuses

InPast(date, time) == date < now.day \/ (date = now.day /\ time < now.time)

\* C8: book_appointment and reschedule_appointment answer a POST whose date is
\* before today, or is today with a time before the current time, with a form
\* error and write no Appointment; so whenever an appointment is created or
\* gets a new (date, time), that date and time are not in the past.
C8_PastRejected ==
    [][/\ \A date \in Dates, time \in {T0900, T0930} :
             (BookAppointment("p1", "d1", "POST", "d1", date, time)
                 /\ InPast(date, time))
             => (resp'.outcome = "form_error" /\ appointments' = appointments)
       /\ \A pk \in ApptIds, date \in Dates, time \in {T0900, T0930} :
             (RescheduleAppointment("p1", pk, "POST", date, time)
                 /\ ApptExists(pk) /\ InPast(date, time))
             => (resp'.outcome = "form_error" /\ appointments' = appointments)
       /\ \A b \in appointments' :
             (\A a \in appointments :
                 ~ (a.id = b.id /\ a.date = b.date /\ a.time = b.time))
             => ~ InPast(b.date, b.time)]_vars

\* C8 witness: a reschedule was refused with a form error although the doctor
\* is available at every candidate slot and no other appointment exists, so
\* the new date and time were in the past.
C8_Witness ==
    /\ resp = Resp("reschedule_appointment", "p1", "form_error")
    /\ Cardinality(appointments) = 1
    /\ \A d \in Dates : \E v \in availabilities : v.day_of_week = weekday(d)

Stranger(u, a) ==
    IsAuthenticated(u) /\ ~ is_admin(u) /\ u # a.patient /\ u # a.doctor

\* C9: appointment_detail and reschedule_appointment answer 403 and change no
\* Appointment, Review or Notification whenever the authenticated requester is
\* neither an admin nor the user of the appointment's patient or doctor.
\* (Every request records its requester in resp.user, so the step's requester
\* is resp'.user.)
C9_StrangerForbidden ==
    [][\A pk \in ApptIds :
          LET u == resp'.user IN
          (ApptExists(pk) /\ Stranger(u, Appt(pk)))
          => /\ \A post \in {"GET", "other"} :
                    AppointmentDetail(u, pk, post, 0, "bogus")
                    => /\ resp'.outcome = "403"
                       /\ UNCHANGED <<appointments, reviews, notifications>>
             /\ \A new_status \in {"completed", "cancelled", "bogus"} :
                    AppointmentDetail(u, pk, "update_status", 0, new_status)
                    => /\ resp'.outcome = "403"
                       /\ UNCHANGED <<appointments, reviews, notifications>>
             /\ \A rating \in {0, 5} :
                    AppointmentDetail(u, pk, "submit_review", rating, "bogus")
                    => /\ resp'.outcome = "403"
                       /\ UNCHANGED <<appointments, reviews, notifications>>
             /\ \A method \in {"GET", "POST"} :
                    RescheduleAppointment(u, pk, method, 1, T1000)
                    => /\ resp'.outcome = "403"
                       /\ UNCHANGED <<appointments, reviews, notifications>>]_vars

\* C9 witness: patient p2 was answered 403 on an appointment of p1 with d1.
C9_Witness ==
    /\ resp.outcome = "403"
    /\ resp.user = "p2"
    /\ appointments # {}
    /\ \A a \in appointments : a.patient = "p1" /\ a.doctor = "d1"

\* C2: when two book_appointment requests by different patients for the same
\* doctor, date and time interleave in any order, at most one Appointment row
\* exists for the slot and at most one of the two requests ends booked.
C2_OneWinner ==
    \A r1 \in inflight, r2 \in inflight :
        (r1.user # r2.user /\ SameSlot(r1, r2))
        => /\ ~ (r1.pc = "booked" /\ r2.pc = "booked")
           /\ Cardinality({a \in appointments : SameSlot(a, r1)}) <= 1

\* C2 witness: both requests passed validation before either saved; one was
\* booked and the database refused the other.
C2_Witness ==
    \E r1 \in inflight, r2 \in inflight :
        /\ r1.user # r2.user /\ SameSlot(r1, r2)
        /\ r1.f_doctor = r1.doctor /\ r2.f_doctor = r2.doctor
        /\ r1.pc = "booked" /\ r2.pc = "500"

\* The last response of get_available_time_slots, if it is the last request
Answered == slotsOut.doctor # "none"
Returned == {slotsOut.slots[i] : i \in 1..Len(slotsOut.slots)}

ActiveAt(d, date, time) ==
    \E a \in appointments :
        /\ a.doctor = d /\ a.date = date /\ a.time = time
        /\ a.status \in ActiveStatuses

\* C4 (as claimed): no returned slot time is the time of an active
\* (pending, confirmed, rescheduled) appointment of the doctor on the date.
C4_NoBookedSlot ==
    Answered => \A t \in Returned : ~ ActiveAt(slotsOut.doctor, slotsOut.date, t)

\* C5 (as claimed): for every requested date, past dates included, no returned
\* slot lies before the current date and time.
C5_NoPastSlot ==
    Answered => \A t \in Returned : ~ InPast(slotsOut.date, t)

\* The times start_time + k * 30 minutes strictly before end_time of the
\* doctor's available windows on the date's weekday that are valid on the date
GridTimes(d, date) ==
    UNION {{v.start_time + k * SlotMinutes * 60 :
                k \in {j \in 0..((24 * 60) \div SlotMinutes) :
                          v.start_time + j * SlotMinutes * 60 < v.end_time}} :
           v \in {w \in availabilities :
                    /\ w.doctor = d /\ w.is_available
                    /\ w.day_of_week = weekday(date)
                    /\ w.valid_from <= date
                    /\ (w.valid_to = NULL \/ w.valid_to >= date)}}

ExpectedTimes(d, date) ==
    {t \in GridTimes(d, date) :
        /\ ~ ActiveAt(d, date, t)
        /\ ~ (date = now.day /\ t < now.time)}

StrictlyAscending(seq) ==
    \A i \in 1..Len(seq), j \in 1..Len(seq) : i < j => seq[i] < seq[j]

\* C6 (as claimed): the returned list is exactly the grid times of the
\* doctor's valid, available windows, minus the booked ones and, for today,
\* minus those earlier than now; without duplicates and ascending.
C6_ExactSlots ==
    Answered => /\ Returned = ExpectedTimes(slotsOut.doctor, slotsOut.date)
                /\ StrictlyAscending(slotsOut.slots)

\* Rows that exist and belong to someone other than the requester
OthersNotification(u, pk) ==
    \E n \in notifications : n.id = pk /\ n.recipient # u

OthersAvailability(u, pk) ==
    \E v \in availabilities : v.id = pk /\ v.doctor # u

OthersPatientAppointment(u, pk) ==
    \E a \in appointments : a.id = pk /\ a.patient # u

OthersDoctorAppointment(u, pk) ==
    \E a \in appointments : a.id = pk /\ a.doctor # u

NotificationIds == {n.id : n \in notifications}
AvailabilityIds == {v.id : v \in availabilities}
AppointmentIds == {a.id : a \in appointments}

\* C10: a request that names a row owned by someone else changes no row and,
\* coming from a user the view admits (logged in for the notification views,
\* a doctor for delete_availability and create_medical_record, a patient for
\* process_payment), is answered 404. It holds for notification_mark_read
\* with pk # 0, notification_delete, delete_availability, process_payment and
\* create_medical_record.
C10_OthersRowNotFound ==
    [][/\ \A u \in OwnerRequesters, pk \in NotificationIds :
            /\ OthersNotification(u, pk)
            /\ NotificationMarkRead(u, pk) \/ NotificationDelete(u, pk)
            => /\ UNCHANGED db
               /\ IsAuthenticated(u) => resp'.outcome = "404"
       /\ \A u \in OwnerRequesters, pk \in AvailabilityIds :
            OthersAvailability(u, pk) /\ DeleteAvailability(u, pk)
            => /\ UNCHANGED db
               /\ is_doctor(u) => resp'.outcome = "404"
       /\ \A u \in OwnerRequesters, pk \in AppointmentIds :
            /\ OthersPatientAppointment(u, pk)
            /\ \E method \in {"GET", "POST"}, form_valid \in BOOLEAN :
                  ProcessPayment(u, pk, method, form_valid)
            => /\ UNCHANGED db
               /\ is_patient(u) => resp'.outcome = "404"
       /\ \A u \in OwnerRequesters, pk \in AppointmentIds :
            /\ OthersDoctorAppointment(u, pk)
            /\ \E method \in {"GET", "POST"}, form_valid \in BOOLEAN :
                  CreateMedicalRecord(u, pk, method, form_valid)
            => /\ UNCHANGED db
               /\ is_doctor(u) => resp'.outcome = "404"]_vars

\* C10's case: doctor d2 has asked to delete a notification while every
\* notification there is belongs to doctor d1 and none has been deleted, a
\* payment has been made and a medical record written by their owners.
C10_Witness ==
    /\ resp = Resp("notification_delete", "d2", "404")
    /\ notifications # {}
    /\ \A n \in notifications : n.recipient = "d1" /\ ~ n.is_deleted
    /\ \E p \in payments : p.payment_status = "completed"
    /\ records # {}

\* C11: notification_delete keeps the row and sets is_deleted and deleted_at
\* (the current time); no step clears is_deleted; and no page lists a deleted
\* notification or counts it as unread.
C11_SoftDeleteHides ==
    [][/\ \A u \in Users, pk \in NotificationIds :
            OwnNotification(u, pk) /\ NotificationDelete(u, pk)
            => /\ {n.id : n \in notifications'} = NotificationIds
               /\ \E n \in notifications, m \in notifications' :
                     /\ n.id = pk
                     /\ m = [n EXCEPT !.is_deleted = TRUE, !.deleted_at = now]
       /\ \A n \in notifications : n.is_deleted =>
             \E m \in notifications' : m.id = n.id /\ m.is_deleted
       /\ \A n \in notifications' : n.is_deleted => n.id \notin pageOut'.listed
       /\ pageOut'.view # "none" =>
             pageOut'.unread_count =
                Cardinality({n \in notifications' :
                               /\ n.recipient = pageOut'.user
                               /\ ~ n.is_read /\ ~ n.is_deleted})]_vars

\* C11's case: a doctor's notification list shows one notification while
\* another notification of theirs, unread, was deleted on an earlier day.
C11_Witness ==
    /\ pageOut.view = "notification_list"
    /\ pageOut.listed # {}
    /\ \E n \in notifications :
          /\ n.recipient = pageOut.user /\ n.is_deleted /\ ~ n.is_read
          /\ n.deleted_at.day < now.day

AppointmentNotifications(rows) == {n \in rows : n.type = "appointment"}

\* C12: a successful book_appointment inserts, in the same step, exactly one
\* 'appointment' notification, addressed to the booked doctor; no other step
\* inserts one; so each doctor has as many 'appointment' notifications as
\* appointments.
C12_OneNotificationPerBooking ==
    [][/\ resp'.op = "book_appointment" /\ resp'.outcome = "booked"
          => \E a \in appointments' \ appointments :
                \E n \in notifications' \ notifications :
                   /\ appointments' \ appointments = {a}
                   /\ AppointmentNotifications(notifications')
                         \ AppointmentNotifications(notifications) = {n}
                   /\ n.recipient = a.doctor
                   /\ n.action_url = a.id
       /\ ~ (resp'.op = "book_appointment" /\ resp'.outcome = "booked")
          => AppointmentNotifications(notifications')
                = AppointmentNotifications(notifications)
       /\ \A d \in Doctors :
             Cardinality({n \in AppointmentNotifications(notifications') :
                             n.recipient = d})
                = Cardinality({a \in appointments' : a.doctor = d})]_vars

\* C12's case: an appointment has been booked, rescheduled and paid, and its
\* status has been set by the doctor.
C12_Witness ==
    \E a \in appointments :
        /\ a.status = "confirmed"
        /\ a.time = T1000
        /\ a.payment_status = "paid"
        /\ \E n \in notifications : n.type = "appointment" /\ n.action_url = a.id

PaymentsOf(rows, pk) == {p \in rows : p.appointment = pk}

\* C13: a POST to process_payment with a valid form, by the patient who owns
\* the appointment and has not completed its payment, leaves the appointment
\* with a single Payment, 'completed', dated now and with a transaction id,
\* and with payment_status 'paid'.
C13_PaymentSucceeds ==
    [][\A u \in Users, pk \in AppointmentIds :
          /\ is_patient(u) /\ PatientAppointment(u, pk)
          /\ \A p \in PaymentsOf(payments, pk) : p.payment_status # "completed"
          /\ ProcessPayment(u, pk, "POST", TRUE)
          => /\ resp'.outcome = "paid"
             /\ \E p \in payments' :
                   /\ PaymentsOf(payments', pk) = {p}
                   /\ p.payment_status = "completed"
                   /\ p.payment_date = now
                   /\ p.transaction_id # NoTxn
             /\ \E a \in appointments' :
                   a.id = pk /\ a.payment_status = "paid"]_vars

\* C13's case: an appointment whose payment form was first posted invalid
\* (the Payment was left pending) and then valid, while another appointment's
\* Payment is still pending.
C13_Witness ==
    /\ resp = Resp("process_payment", "p1", "paid")
    /\ \E p \in payments : p.id = 1 /\ p.payment_status = "completed"
    /\ \E p \in payments : p.id = 2 /\ p.payment_status = "pending"

\* C14: every DoctorAvailability row has start_time before end_time, and a
\* manage_availability POST with start_time >= end_time ends in a form error
\* and creates no row.
C14_StartBeforeEnd ==
    [][/\ \A v \in availabilities' : v.start_time < v.end_time
       /\ \A u \in Doctors, dow \in AvailDows, start \in AvailTimes,
             end \in AvailTimes, f \in AvailFlags :
             /\ start >= end
             /\ ManageAvailability(u, "POST", dow, start, end, f[1], f[2], f[3])
             => resp'.outcome = "form_error" /\ UNCHANGED db]_vars

\* C14's case: a window has been refused with a form error while the doctor
\* has a row.
C14_Witness ==
    /\ resp.op = "manage_availability" /\ resp.outcome = "form_error"
    /\ \E v \in availabilities : v.doctor = resp.user

Overlap(v, w) == v.start_time < w.end_time /\ w.start_time < v.end_time

SameDoctorDay(v, w) == v.doctor = w.doctor /\ v.day_of_week = w.day_of_week

\* C20: no two rows of the same doctor and day_of_week overlap, whatever
\* their flags and validity dates; a new window overlapping an existing one
\* is refused and creates no row; a window that only touches existing ones
\* is added.
C20_NoOverlap ==
    [][/\ \A v \in availabilities', w \in availabilities' :
             v # w /\ SameDoctorDay(v, w) => ~ Overlap(v, w)
       /\ \A u \in Doctors, dow \in AvailDows, start \in AvailTimes,
             end \in AvailTimes, f \in AvailFlags :
             LET new == [doctor |-> u, day_of_week |-> dow,
                         start_time |-> start, end_time |-> end]
                 clash == {v \in availabilities :
                             SameDoctorDay(v, new) /\ Overlap(v, new)}
             IN  /\ start < end
                 /\ ManageAvailability(u, "POST", dow, start, end, f[1], f[2],
                                       f[3])
                 => IF clash # {}
                    THEN resp'.outcome = "overlap" /\ UNCHANGED db
                    ELSE /\ resp'.outcome = "added"
                         /\ \E v \in availabilities' \ availabilities :
                               /\ availabilities' = availabilities \cup {v}
                               /\ SameDoctorDay(v, new)
                               /\ v.start_time = start /\ v.end_time = end]_vars

\* C20's case: a doctor has two touching windows on one day, one of them
\* unavailable and not yet valid, and a window overlapping them has just been
\* refused.
C20_Witness ==
    /\ resp.op = "manage_availability" /\ resp.outcome = "overlap"
    /\ \E v \in availabilities, w \in availabilities :
          /\ SameDoctorDay(v, w) /\ v.doctor = resp.user
          /\ v.end_time = w.start_time
          /\ v.is_available /\ ~ w.is_available

\* Another appointment of the same doctor holds (date, time) in an active
\* status
HeldByOther(a, date, time) ==
    \E o \in appointments :
        /\ o.id # a.id /\ o.doctor = a.doctor
        /\ o.date = date /\ o.time = time
        /\ o.status \in ActiveStatuses

\* C15 (as claimed): a reschedule request whose target slot is held by
\* another active appointment of the doctor is refused by the form, never
\* accepted and then failed on save, and leaves the appointments unchanged.
C15_HeldSlotRefusedByForm ==
    [][\A u \in Users, pk \in AppointmentIds, date \in Dates,
          time \in {T0930, T1000} :
          /\ RescheduleAllowed(u, Appt(pk))
          /\ HeldByOther(Appt(pk), date, time)
          /\ RescheduleAppointment(u, pk, "POST", date, time)
          => resp'.outcome = "form_error" /\ UNCHANGED db]_vars

\* C16 (as claimed): a step that creates or modifies a Review is a request of
\* the patient who owns the reviewed appointment, whose status is 'completed'.
C16_ReviewByOwnerOnly ==
    [][\A r \in reviews' \ reviews :
          \E a \in appointments :
             /\ a.id = r.appointment
             /\ a.patient = resp'.user
             /\ a.status = "completed"]_vars

\* C17 (as claimed): a step of appointment_detail that changes the status of
\* an appointment is a request of the appointment's own doctor, and the new
\* status is one of the five choices.
C17_StatusByOwnDoctorOnly ==
    [][resp'.op = "appointment_detail" =>
          \A a \in appointments, b \in appointments' :
             a.id = b.id /\ a.status # b.status
             => b.status \in STATUS_CHOICES /\ a.doctor = resp'.user]_vars

\* C18: a GET or POST to process_payment by the owner, for an appointment
\* whose Payment is 'completed', changes no Payment, Appointment or
\* Notification and redirects to the appointment.
C18_NoRepayment ==
    [][\A u \in Users, pk \in AppointmentIds, method \in {"GET", "POST"},
          form_valid \in BOOLEAN :
          /\ is_patient(u) /\ PatientAppointment(u, pk)
          /\ \E p \in PaymentsOf(payments, pk) : p.payment_status = "completed"
          /\ ProcessPayment(u, pk, method, form_valid)
          => resp'.outcome = "already_paid" /\ UNCHANGED db]_vars

\* C18's case: the owner has asked again, on a later day, for the page of a
\* payment completed before.
C18_Witness ==
    /\ resp = Resp("process_payment", "p1", "already_paid")
    /\ \E p \in payments :
          /\ p.payment_status = "completed"
          /\ p.payment_date # NoInstant
          /\ p.payment_date.day < now.day

PaymentNotifications(rows, d, pk) ==
    {n \in rows : n.type = "payment" /\ n.recipient = d
                    /\ n.related_object_id = pk}

\* C19: at most one 'payment' notification exists for a doctor and an
\* appointment, however often the completed Payment is saved, and a step
\* that saves a Payment in another status adds no 'payment' notification.
C19_OnePaymentNotification ==
    [][/\ \A a \in appointments' :
             Cardinality(PaymentNotifications(notifications', a.doctor, a.id)) <= 1
       /\ \A q \in payments' :
             (q \notin payments \/ resp'.outcome = "saved")
                /\ q.payment_status # "completed"
             => {n \in notifications' : n.type = "payment"}
                   = {n \in notifications : n.type = "payment"}]_vars

\* C19's case: a completed Payment has been saved again in the admin site
\* after its 'payment' notification was deleted by the doctor.
C19_Witness ==
    /\ resp = Resp("admin_payment_change", "root", "saved")
    /\ \E p \in payments, n \in notifications :
          /\ p.payment_status = "completed"
          /\ n.type = "payment" /\ n.related_object_id = p.appointment
          /\ n.is_deleted

\* C21: a step of create_medical_record that adds a MedicalRecord adds one,
\* linked to an appointment whose doctor is the requester, with that
\* appointment's patient and doctor; and no appointment ever has two records.
C21_OneRecordByOwnDoctor ==
    [][/\ resp'.op = "create_medical_record" =>
             \A r \in records' \ records :
                /\ records' = records \cup {r}
                /\ \E a \in appointments :
                      /\ a.id = r.appointment
                      /\ a.doctor = resp'.user
                      /\ r.patient = a.patient /\ r.doctor = a.doctor
       /\ \A r \in records', q \in records' :
             r.appointment = q.appointment => r = q]_vars

\* C21's case: the doctor of an appointment that has its record has asked to
\* write it again.
C21_Witness ==
    /\ resp.op = "create_medical_record" /\ resp.outcome = "exists"
    /\ \E r \in records, a \in appointments :
          r.appointment = a.id /\ a.doctor = resp.user

\* C22 (as claimed): a record is shown only to its patient, its doctor or an
\* admin, and a patient or doctor who is not the one on the record gets 403,
\* also when the record has no doctor.
C22_RecordShownToPartiesOnly ==
    [][\A u \in Users, r \in records :
          MedicalRecordDetail(u, r.id) =>
             /\ resp'.outcome = "render" =>
                   is_admin(u) \/ u = r.patient \/ u = r.doctor
             /\ ~ is_admin(u) /\ u # r.patient /\ u # r.doctor =>
                   resp'.outcome = "403"]_vars

\* C23: a step of user_login by a visitor leaves the visitor unauthenticated
\* unless the username and password authenticate a user whose stored role is
\* the submitted one, and then the session is that user's.
C23_LoginNeedsRole ==
    [][\A method \in {"GET", "POST"}, username \in LoginNames,
          password \in LoginPasswords, role \in ROLE_CHOICES :
          session = Anon /\ UserLogin(method, username, password, role)
          => IF /\ method = "POST"
                /\ username \in Users \cup AccountNames
                /\ Password(username) = password
                /\ Role(username) = role
             THEN session' = username
             ELSE session' = Anon]_vars

\* C23's case: a login with the right password and the wrong role has been
\* refused for an account that exists.
C23_Witness ==
    /\ resp = Resp("user_login", Anon, "invalid")
    /\ session = Anon
    /\ \E acc \in accounts : acc.role = "doctor"

\* C24 (as claimed): a valid add_doctor POST by an admin creates the User
\* with role doctor and its Doctor row and reports success, and no
\* doctor-role User is left without its Doctor row.
C24_DoctorUserHasRow ==
    [][/\ \A u \in Users, username \in NewNames :
             /\ is_admin(u) /\ username \notin AccountNames
             /\ AddDoctor(u, "POST", username, TRUE)
             => /\ resp'.outcome = "created"
                /\ username \in AccountNames' /\ username \in doctorRows'
       /\ resp'.op = "add_doctor" =>
             \A acc \in accounts' \ accounts :
                acc.role = "doctor" => acc.username \in doctorRows']_vars

\* C25 (as claimed): a register, user_login or profile_view request of a
\* requester who is not an admin writes no account with the role admin and
\* leaves the requester without an admin session.
C25_NoSelfMadeAdmin ==
    [][/\ resp'.op \in {"register", "user_login", "profile_view"}
       /\ ~ is_admin(session)
       => /\ \A acc \in accounts' \ accounts : acc.role # "admin"
          /\ session' \in AccountNames' =>
                (CHOOSE acc \in accounts' : acc.username = session').role # "admin"]_vars

\* C26 (as claimed): cancelled and completed are terminal: an
\* appointment_detail or reschedule_appointment request leaves the status,
\* date and time of an appointment that is cancelled or completed as they
\* were.
C26_TerminalStatus ==
    [][resp'.op \in {"appointment_detail", "reschedule_appointment"} =>
          \A a \in appointments :
             a.status \in {"cancelled", "completed"} =>
                \E b \in appointments' :
                   /\ b.id = a.id
                   /\ b.status = a.status
                   /\ b.date = a.date
                   /\ b.time = a.time]_vars

\* C27 (as claimed): every appointment ends 30 minutes after it starts, later
\* on the same day.
C27_EndAfterStart ==
    \A a \in appointments :
        /\ a.end_time = a.time + ApptMinutes * 60
        /\ a.end_time > a.time
        /\ a.end_time < DaySeconds

\* C28 (as claimed): with process_payment requests interleaved, an
\* appointment has at most one Payment row, and no step of process_payment
\* changes the transaction_id or payment_date of a Payment that is completed.
C28_CompletedPaymentKept ==
    [][resp'.op = "process_payment" =>
          /\ \A a \in appointments' : Cardinality(PaymentsOf(payments', a.id)) <= 1
          /\ \A p \in payments :
                p.payment_status = "completed" =>
                   \E q \in payments' :
                      /\ q.id = p.id
                      /\ q.transaction_id = p.transaction_id
                      /\ q.payment_date = p.payment_date]_vars

====
